---- MODULE Spec2Model ----
(***************************************************************************)
(* Model of the profile server actions (src/app/actions/profile-actions.ts)*)
(* and of the client-side auth provider                                    *)
(* (src/components/auth/auth-provider.tsx).                                *)
(*                                                                         *)
(* Strings the code inspects (display names, MIME types, file names,       *)
(* e-mail addresses, storage keys) are sequences of one-character strings, *)
(* so that length, startsWith and split are computed as the code computes  *)
(* them.  Fixed messages are TLA+ strings.                                 *)
(***************************************************************************)
EXTENDS Integers, Sequences, FiniteSets, Bags, TLC

\* ------------------------------------------------------------------------
\* Bounds of the model
\* ------------------------------------------------------------------------
\* largest value of the millisecond clock read by Date.now()
MaxClock == 1
\* number of auth-change handlers that may be suspended together (the
\* handler of the initial session of each effect run comes on top)
MaxInFlight == 1
\* number of times the mount effect of the provider runs in one behaviour
MaxEffectRuns == 2
\* number of signIn / signUp / signOut calls that may be unanswered together
MaxSignCalls == 1

\* ------------------------------------------------------------------------
\* Values
\* ------------------------------------------------------------------------
\* A value that may be null or undefined in the source is None or Some(v):
\* a missing form field, the user of a request, a profile that was not
\* fetched.
None == <<>>
Some(v) == <<v>>
Val(o) == o[1]

\* a string of n characters
Str(n) == [i \in 1..n |-> "x"]

\* identities known to the auth service (user.id)
Ids == { <<"u", "1">>, <<"u", "2">> }

\* the e-mail address of an identity
EmailOf(id) == id \o <<"@", "q">>

\* JavaScript string helpers -----------------------------------------------
\* s.startsWith(p)
StartsWith(s, p) ==
  /\ Len(s) >= Len(p)
  /\ \A i \in 1..Len(p) : s[i] = p[i]

\* positions of the separator character in s
SepPositions(s, sep) == { i \in 1..Len(s) : s[i] = sep }

Max(S) == CHOOSE m \in S : \A x \in S : x <= m
Min(S) == CHOOSE m \in S : \A x \in S : m <= x

\* s.split(sep).pop(): the segment after the last separator (all of s when
\* there is none)
SplitPop(s, sep) ==
  IF SepPositions(s, sep) = {} THEN s
  ELSE SubSeq(s, Max(SepPositions(s, sep)) + 1, Len(s))

\* s.split(sep)[0]: the segment before the first separator (all of s when
\* there is none)
SplitFirst(s, sep) ==
  IF SepPositions(s, sep) = {} THEN s
  ELSE SubSeq(s, 1, Min(SepPositions(s, sep)) - 1)

\* decimal digits of a natural number, as template literals print it
Digit(d) == <<"0", "1", "2", "3", "4", "5", "6", "7", "8", "9">>[d + 1]

RECURSIVE ToDigits(_)
ToDigits(n) == IF n < 10 THEN <<Digit(n)>> ELSE ToDigits(n \div 10) \o <<Digit(n % 10)>>

\* ------------------------------------------------------------------------
\* Program constants of the server actions
\* ------------------------------------------------------------------------
\* displayName.length > 32
MaxDisplayNameLen == 32
\* file.size > 2 * 1024 * 1024
MaxAvatarBytes == 2 * 1024 * 1024
\* data.systemPrompt.length > 1000, data.notes.length > 2000
MaxSystemPromptLen == 1000
MaxNotesLen == 2000

ImagePrefix == <<"i", "m", "a", "g", "e", "/">>

\* ------------------------------------------------------------------------
\* Inputs
\* ------------------------------------------------------------------------
\* formData.get("displayName"): missing, or a string at and around the limits
DisplayNames ==
  {None} \cup { Some(Str(n)) : n \in {0, 1, MaxDisplayNameLen, MaxDisplayNameLen + 1} }

MimeTypes == { ImagePrefix \o <<"p", "n", "g">>, <<"t", "e", "x", "t", "/", "x">> }
FileNames == { <<"a", ".", "p", "n", "g">>, <<"a", "v">> }
FileSizes == {0, 1, MaxAvatarBytes, MaxAvatarBytes + 1}

\* formData.get("avatar"): missing, or a File
Files ==
  {None} \cup { Some(f) : f \in [size : FileSizes, type : MimeTypes, name : FileNames] }

\* data of updatePersonalization, by the two lengths the code reads
PersonalizationData ==
  [systemPrompt : {Str(MaxSystemPromptLen), Str(MaxSystemPromptLen + 1)},
   notes : {Str(MaxNotesLen), Str(MaxNotesLen + 1)}]

\* the requests the server receives: two, which may be in flight together
Calls == {"c1", "c2"}

\* ------------------------------------------------------------------------
\* State
\* ------------------------------------------------------------------------
VARIABLES
  \* server actions ---------------------------------------------------------
  call,      \* call[c]: the invocation serving request c (see IdleCall)
  rows,      \* the "profiles" table: one row per identity, keyed by id
  store,     \* the "avatars" bucket: the set of object paths it holds
  clock,     \* the value Date.now() returns
  \* auth provider ----------------------------------------------------------
  configured,    \* configured && supabase: a backend is configured
  user,          \* useState: the mirrored identity, with its profile
  session,       \* useState: the mirrored session
  loading,       \* useState: the loading flag
  phase,         \* "rendered" (effect not yet run), "mounted", "unmounted"
  effectRun,     \* number of times the mount effect has run
  subscriptions, \* effect runs whose auth-change listener is subscribed
  tasks,         \* bag of the handlers suspended on a remote call
  contacted,     \* methods of the backend the provider has called
  signResult,    \* what the last signIn / signUp returned
  lateWrite      \* setUser or setLoading was called after the unmount

actionVars == <<call, rows, store, clock>>
mirrorVars == <<configured, user, session, loading, phase, effectRun,
                subscriptions, tasks, contacted, signResult, lateWrite>>
vars == <<call, rows, store, clock, configured, user, session, loading,
          phase, effectRun, subscriptions, tasks, contacted, signResult,
          lateWrite>>

\* results the handlers return -------------------------------------------
NoResult == [pending |-> TRUE]
IsError(r) == "error" \in DOMAIN r

\* an invocation: where it is suspended (pc), the request's arguments, the
\* locals that live across an await, what it returned, and what it did to
\* its collaborators (log: the remote calls made, in order, each with its
\* outcome; views: the paths passed to revalidatePath)
IdleCall ==
  [pc |-> "idle", op |-> "none", ctx |-> None, input |-> None, user |-> None,
   filePath |-> None, publicUrl |-> None, ts |-> 0,
   result |-> NoResult, log |-> <<>>, views |-> {}]

Logged(c, name, good) == Append(c.log, [call |-> name, ok |-> good])

\* the "connected_accounts" table (this code only reads it)
ConnectedAccounts ==
  { [user_id |-> <<"u", "1">>, provider |-> "github", created_at |-> 2],
    [user_id |-> <<"u", "1">>, provider |-> "google", created_at |-> 1],
    [user_id |-> <<"u", "2">>, provider |-> "github", created_at |-> 3] }

\* .order("created_at", { ascending: true }) of a set of rows
RECURSIVE OrderByCreatedAt(_)
OrderByCreatedAt(S) ==
  IF S = {} THEN <<>>
  ELSE LET first == CHOOSE r \in S : \A q \in S : r.created_at <= q.created_at
       IN <<first>> \o OrderByCreatedAt(S \ {first})

\* the check of the display name turning away a name of exactly 32 characters
DisplayNameRejected_At32(displayName) ==
  \/ displayName = None
  \/ Len(Val(displayName)) = 0
  \/ Len(Val(displayName)) >= MaxDisplayNameLen

\* ------------------------------------------------------------------------
\* Server actions: the decisions the handlers take
\* ------------------------------------------------------------------------
\* !displayName || displayName.length === 0 || displayName.length > 32
DisplayNameRejected(displayName) ==
  \/ displayName = None
  \/ Len(Val(displayName)) = 0
  \/ Len(Val(displayName)) > MaxDisplayNameLen

\* !file || file.size === 0
NoFileSelected(file) == file = None \/ Val(file).size = 0
\* file.size > 2 * 1024 * 1024
FileTooLarge(file) == Val(file).size > MaxAvatarBytes
\* !file.type.startsWith("image/")
NotAnImage(file) == ~StartsWith(Val(file).type, ImagePrefix)

\* uploadAvatar checking the MIME type before the size
AvatarValidation_TypeBeforeSize(file) ==
  IF NoFileSelected(file) THEN "No file selected"
  ELSE IF NotAnImage(file) THEN "File must be an image"
  ELSE IF FileTooLarge(file) THEN "File size must be less than 2MB"
  ELSE "ok"

\* the first failing check of uploadAvatar, or "ok"
AvatarValidation(file) ==
  IF NoFileSelected(file) THEN "No file selected"
  ELSE IF FileTooLarge(file) THEN "File size must be less than 2MB"
  ELSE IF NotAnImage(file) THEN "File must be an image"
  ELSE "ok"

\* `avatars/${user.id}-${Date.now()}.${file.name.split(".").pop()}`
AvatarFilePath(userId, now, file) ==
  <<"a", "v", "a", "t", "a", "r", "s", "/">> \o userId \o <<"-">> \o ToDigits(now)
    \o <<".">> \o SplitPop(Val(file).name, ".")

\* the first failing check of updatePersonalization, or "ok"
PersonalizationValidation(data) ==
  IF Len(data.systemPrompt) > MaxSystemPromptLen
    THEN "System prompt must be 1000 characters or less"
  ELSE IF Len(data.notes) > MaxNotesLen
    THEN "Notes must be 2000 characters or less"
  ELSE "ok"

\* the public URL the object store gives for a path, when it gives one
PublicUrlOf(path) == <<"h", "t", "t", "p", "s", ":", "/", "/">> \o path

\* the message of an error a collaborator reports
RemoteMessage == "remote error"

Finish(c, res) == [c EXCEPT !.pc = "done", !.result = res]

\* ------------------------------------------------------------------------
\* Server actions: the handlers, one operator per resumption
\* ------------------------------------------------------------------------
\* updateProfile without the check of the display name
UpdateProfileAfterGetUser_Unvalidated(c, authUser, now) ==
  LET d == [c EXCEPT !.user = authUser, !.log = Logged(c, "auth.getUser", authUser # None)]
  IN IF authUser = None THEN Finish(d, [error |-> "User not authenticated"])
     ELSE [d EXCEPT !.pc = "update", !.ts = now]

\* updateProfile, from the answer of auth.getUser() to the next await
UpdateProfileAfterGetUser(c, authUser, now) ==
  LET d == [c EXCEPT !.user = authUser, !.log = Logged(c, "auth.getUser", authUser # None)]
  IN IF authUser = None THEN Finish(d, [error |-> "User not authenticated"])
     ELSE IF DisplayNameRejected(c.input)
       THEN Finish(d, [error |-> "Display name must be between 1 and 32 characters"])
     ELSE [d EXCEPT !.pc = "update", !.ts = now]

\* updateProfile invalidating the views before it looks at the outcome of
\* the update
UpdateProfileAfterUpdate_AlwaysRevalidates(c, ok) ==
  LET d == [c EXCEPT !.log = Logged(c, "profiles.update", ok),
                     !.views = {"/settings", "/dashboard"}]
  IN IF ~ok
       THEN Finish(d, [error |-> "Failed to update profile. ", cause |-> RemoteMessage])
     ELSE Finish(d, [message |-> "Profile updated successfully"])

\* updateProfile, from the answer of profiles.update() to the return
UpdateProfileAfterUpdate(c, ok) ==
  LET d == [c EXCEPT !.log = Logged(c, "profiles.update", ok)]
  IN IF ~ok
       THEN Finish(d, [error |-> "Failed to update profile. ", cause |-> RemoteMessage])
     ELSE Finish([d EXCEPT !.views = {"/settings", "/dashboard"}],
                 [message |-> "Profile updated successfully"])

\* uploadAvatar, from the answer of auth.getUser() to the next await
UploadAvatarAfterGetUser(c, authUser, now) ==
  LET d == [c EXCEPT !.user = authUser, !.log = Logged(c, "auth.getUser", authUser # None)]
  IN IF authUser = None THEN Finish(d, [error |-> "User not authenticated"])
     ELSE IF AvatarValidation(c.input) # "ok"
       THEN Finish(d, [error |-> AvatarValidation(c.input)])
     ELSE [d EXCEPT !.pc = "upload",
                    !.filePath = Some(AvatarFilePath(Val(authUser), now, c.input))]

\* uploadAvatar, from the answer of storage.upload() to the next await;
\* getPublicUrl is not awaited and answers url (None: no URL obtainable)
UploadAvatarAfterUpload(c, ok, url, now) ==
  LET d == [c EXCEPT !.log = Logged(c, "storage.upload", ok)]
      e == [d EXCEPT !.log = Logged(d, "storage.getPublicUrl", url # None)]
  IN IF ~ok
       THEN Finish(d, [error |-> "Failed to upload avatar. ", cause |-> RemoteMessage])
     ELSE IF url = None THEN Finish(e, [error |-> "Failed to get avatar URL."])
     ELSE [e EXCEPT !.pc = "updateAvatar", !.publicUrl = url, !.ts = now]

\* uploadAvatar returning the profile-write error without the removal
UploadAvatarAfterUpdate_NoRemoval(c, ok) ==
  LET d == [c EXCEPT !.log = Logged(c, "profiles.update", ok)]
  IN IF ~ok
       THEN Finish(d, [error |-> "Failed to update profile with new avatar. ",
                       cause |-> RemoteMessage])
     ELSE Finish([d EXCEPT !.views = {"/settings", "/dashboard"}],
                 [message |-> "Avatar updated successfully", avatarUrl |-> Val(c.publicUrl)])

\* uploadAvatar, from the answer of profiles.update() to the next await or
\* the return
UploadAvatarAfterUpdate(c, ok) ==
  LET d == [c EXCEPT !.log = Logged(c, "profiles.update", ok)]
  IN IF ~ok THEN [d EXCEPT !.pc = "remove"]
     ELSE Finish([d EXCEPT !.views = {"/settings", "/dashboard"}],
                 [message |-> "Avatar updated successfully", avatarUrl |-> Val(c.publicUrl)])

\* uploadAvatar, from the answer of storage.remove() to the return; the
\* answer is not inspected
UploadAvatarAfterRemove(c, ok) ==
  Finish([c EXCEPT !.log = Logged(c, "storage.remove", ok)],
         [error |-> "Failed to update profile with new avatar. ", cause |-> RemoteMessage])

\* getConnectedAccounts, from the answer of auth.getUser() to the next await
ConnectedAccountsAfterGetUser(c, authUser) ==
  LET d == [c EXCEPT !.user = authUser, !.log = Logged(c, "auth.getUser", authUser # None)]
  IN IF authUser = None
       THEN Finish(d, [error |-> "User not authenticated", accounts |-> <<>>])
     ELSE [d EXCEPT !.pc = "select"]

\* getConnectedAccounts, from the answer of the select to the return
ConnectedAccountsAfterSelect(c, ok, data) ==
  LET d == [c EXCEPT !.log = Logged(c, "connected_accounts.select", ok)]
  IN IF ~ok
       THEN Finish(d, [error |-> "Failed to fetch connected accounts. ",
                       cause |-> RemoteMessage, accounts |-> <<>>])
     ELSE Finish(d, [accounts |-> data])

\* updatePersonalization, from the end of the simulated delay to the return
PersonalizationAfterDelay(c) ==
  IF PersonalizationValidation(Val(c.input)) # "ok"
    THEN Finish(c, [error |-> PersonalizationValidation(Val(c.input))])
  ELSE Finish([c EXCEPT !.views = {"/settings"}],
              [success |-> TRUE,
               message |-> "Personalization settings updated successfully"])

\* an update without its .eq("id", id) filter: every row is patched
RowsAfterUpdate_Unfiltered(id, patch) ==
  [i \in DOMAIN rows |-> [f \in DOMAIN rows[i] |->
                            IF f \in DOMAIN patch THEN patch[f] ELSE rows[i][f]]]

\* ------------------------------------------------------------------------
\* Collaborators of the server actions
\* ------------------------------------------------------------------------
\* profiles.update(patch).eq("id", id): the rows after a successful update
RowsAfterUpdate(id, patch) ==
  [rows EXCEPT ![id] = [f \in DOMAIN rows[id] |->
                         IF f \in DOMAIN patch THEN patch[f] ELSE rows[id][f]]]

\* an upload with the upsert option: an existing object is overwritten
UploadMaySucceed_Upsert(path) == TRUE

\* storage.upload(path, file) is called without the upsert option: it
\* succeeds only for a path the bucket does not hold yet
UploadMaySucceed(path) == path \notin store

\* ------------------------------------------------------------------------
\* Server actions: the steps
\* ------------------------------------------------------------------------
InitActions ==
  /\ call = [c \in Calls |-> IdleCall]
  /\ rows = [id \in Ids |-> [id |-> id, display_name |-> Str(1), avatar_url |-> None,
                             email |-> EmailOf(id), created_at |-> 0,
                             updated_at |-> 0]]
  /\ store = {}
  /\ clock = 0

\* what a request may carry, by handler: the identity its cookies stand for
\* and the argument
Requests ==
  [op : {"updateProfile"}, ctx : {None} \cup {Some(i) : i \in Ids}, input : DisplayNames]
    \cup [op : {"uploadAvatar"}, ctx : {None} \cup {Some(i) : i \in Ids}, input : Files]
    \cup [op : {"getConnectedAccounts"}, ctx : {None} \cup {Some(i) : i \in Ids},
          input : {None}]
    \cup [op : {"updatePersonalization"}, ctx : {None},
          input : {Some(d) : d \in PersonalizationData}]

\* a form is submitted: the handler runs to its first await
Invoke(c) ==
  /\ call[c].pc = "idle"
  /\ \E r \in Requests :
       call' = [call EXCEPT ![c] =
                  [IdleCall EXCEPT !.op = r.op, !.ctx = r.ctx, !.input = r.input,
                                   !.pc = IF r.op = "updatePersonalization"
                                            THEN "delay" ELSE "getUser"]]
  /\ UNCHANGED <<rows, store, clock>>
  /\ UNCHANGED mirrorVars

\* auth.getUser() answers: the identity of the request's cookies, or none
GetUserAnswers(c) ==
  /\ call[c].pc = "getUser"
  /\ \E u \in {call[c].ctx, None} :
       call' = [call EXCEPT ![c] =
                  CASE call[c].op = "updateProfile" ->
                         UpdateProfileAfterGetUser(call[c], u, clock)
                    [] call[c].op = "uploadAvatar" ->
                         UploadAvatarAfterGetUser(call[c], u, clock)
                    [] OTHER -> ConnectedAccountsAfterGetUser(call[c], u)]
  /\ UNCHANGED <<rows, store, clock>>
  /\ UNCHANGED mirrorVars

\* profiles.update({display_name, updated_at}).eq("id", user.id) answers
ProfileUpdateAnswers(c) ==
  /\ call[c].pc = "update"
  /\ \E ok \in BOOLEAN :
       /\ call' = [call EXCEPT ![c] = UpdateProfileAfterUpdate(call[c], ok)]
       /\ rows' = IF ok
                    THEN RowsAfterUpdate(Val(call[c].user),
                           [display_name |-> Val(call[c].input),
                            updated_at |-> call[c].ts])
                    ELSE rows
  /\ UNCHANGED <<store, clock>>
  /\ UNCHANGED mirrorVars

\* storage.upload(filePath, file) answers, and getPublicUrl(filePath) with it
UploadAnswers(c) ==
  /\ call[c].pc = "upload"
  /\ \E ok \in {b \in BOOLEAN : b => UploadMaySucceed(Val(call[c].filePath))},
        url \in {None, Some(PublicUrlOf(Val(call[c].filePath)))} :
       /\ call' = [call EXCEPT ![c] = UploadAvatarAfterUpload(call[c], ok, url, clock)]
       /\ store' = IF ok THEN store \cup {Val(call[c].filePath)} ELSE store
  /\ UNCHANGED <<rows, clock>>
  /\ UNCHANGED mirrorVars

\* profiles.update({avatar_url, updated_at}).eq("id", user.id) answers
AvatarUpdateAnswers(c) ==
  /\ call[c].pc = "updateAvatar"
  /\ \E ok \in BOOLEAN :
       /\ call' = [call EXCEPT ![c] = UploadAvatarAfterUpdate(call[c], ok)]
       /\ rows' = IF ok
                    THEN RowsAfterUpdate(Val(call[c].user),
                           [avatar_url |-> call[c].publicUrl,
                            updated_at |-> call[c].ts])
                    ELSE rows
  /\ UNCHANGED <<store, clock>>
  /\ UNCHANGED mirrorVars

\* storage.remove([filePath]) answers
RemoveAnswers(c) ==
  /\ call[c].pc = "remove"
  /\ \E ok \in BOOLEAN :
       /\ call' = [call EXCEPT ![c] = UploadAvatarAfterRemove(call[c], ok)]
       /\ store' = IF ok THEN store \ {Val(call[c].filePath)} ELSE store
  /\ UNCHANGED <<rows, clock>>
  /\ UNCHANGED mirrorVars

\* connected_accounts.select("*").eq("user_id", user.id).order(...) answers
SelectAnswers(c) ==
  /\ call[c].pc = "select"
  /\ \E ok \in BOOLEAN :
       call' = [call EXCEPT ![c] =
                  ConnectedAccountsAfterSelect(call[c], ok,
                    OrderByCreatedAt({a \in ConnectedAccounts :
                                        a.user_id = Val(call[c].user)}))]
  /\ UNCHANGED <<rows, store, clock>>
  /\ UNCHANGED mirrorVars

\* the setTimeout of updatePersonalization fires
DelayElapses(c) ==
  /\ call[c].pc = "delay"
  /\ call' = [call EXCEPT ![c] = PersonalizationAfterDelay(call[c])]
  /\ UNCHANGED <<rows, store, clock>>
  /\ UNCHANGED mirrorVars

\* a millisecond passes
Tick ==
  /\ clock < MaxClock
  /\ clock' = clock + 1
  /\ UNCHANGED <<call, rows, store>>
  /\ UNCHANGED mirrorVars

NextActions ==
  \/ \E c \in Calls : Invoke(c)
  \/ \E c \in Calls : GetUserAnswers(c)
  \/ \E c \in Calls : ProfileUpdateAnswers(c)
  \/ \E c \in Calls : UploadAnswers(c)
  \/ \E c \in Calls : AvatarUpdateAnswers(c)
  \/ \E c \in Calls : RemoveAnswers(c)
  \/ \E c \in Calls : SelectAnswers(c)
  \/ \E c \in Calls : DelayElapses(c)
  \/ Tick

\* ------------------------------------------------------------------------
\* Auth provider
\* ------------------------------------------------------------------------
\* the User the auth service reports for an identity
AuthUserOf(id) ==
  [id |-> id, email |-> EmailOf(id), user_metadata |-> [display_name |-> None]]

\* what getSession() and an auth-change event may carry: a session with its
\* user, or null
Sessions == {None} \cup { Some([user |-> AuthUserOf(id)]) : id \in Ids }

\* session?.user ?? null
UserOfSession(s) == IF s = None THEN None ELSE Some(Val(s).user)

DemoId == <<"d", "e", "m", "o", "-", "u", "s", "e", "r">>
DemoEmail ==
  <<"d", "e", "m", "o", "@", "q", "u", "e", "u", "e", "c", "x", ".", "c", "o", "m">>
DemoName == <<"D", "e", "m", "o", " ", "U", "s", "e", "r">>

\* the e-mail addresses and passwords given to signIn / signUp
Emails == { <<"a", "@", "b">>, <<"a", "b">>, <<"a", "@", "b", "@", "c">>, <<"@", "b">> }
Passwords == { Str(1), Str(0) }

\* { ...authUser, profile }: a User with its profile (None: undefined)
WithProfile(authUser, profile) ==
  [id |-> authUser.id, email |-> authUser.email,
   user_metadata |-> authUser.user_metadata, profile |-> profile]

\* the mock user the effect sets in demo mode
DemoUser(now) ==
  WithProfile([id |-> DemoId, email |-> DemoEmail,
               user_metadata |-> [display_name |-> Some(DemoName)]],
              Some([id |-> DemoId, display_name |-> DemoName, avatar_url |-> None,
                    email |-> DemoEmail, created_at |-> now, updated_at |-> now]))

\* the demo sign-in taking the whole address as display name
DemoSignedInUser_WholeAddress(email) ==
  WithProfile([id |-> DemoId, email |-> email,
               user_metadata |-> [display_name |-> Some(email)]],
              None)

\* the user signIn and signUp set in demo mode
DemoSignedInUser(email) ==
  WithProfile([id |-> DemoId, email |-> email,
               user_metadata |-> [display_name |-> Some(SplitFirst(email, "@"))]],
              None)

\* what fetchUserProfile returns for the answer of the select: null on
\* error, the row otherwise
FetchUserProfileResult(ok, data) == IF ~ok THEN None ELSE Some(data)

\* the React state the handlers write, the handlers in flight, and the
\* state setters the running handler has called (none yet)
Mirror ==
  [user |-> user, session |-> session, loading |-> loading, tasks |-> tasks,
   contacted |-> contacted, called |-> {}]

\* a handler suspended on a remote call: what it handles (the initial
\* session, an auth-change event, a sign call), the remote call it awaits
\* and the user it carries
Task(kind, awaits, authUser) ==
  [kind |-> kind, awaits |-> awaits, authUser |-> authUser]

One(t) == SetToBag({t})

\* the suspended handlers of one kind
InFlight(kind) ==
  BagCardinality([t \in {x \in BagToSet(tasks) : x.kind = kind} |-> tasks[t]])

\* the handler showing the loading state again while it fetches the profile
HandleSession_Reloading(m, kind, s) ==
  LET authUser == UserOfSession(s)
  IN IF authUser # None
       THEN [m EXCEPT !.session = s, !.loading = TRUE,
                      !.called = {"setSession", "setLoading"},
                      !.tasks = @ (+) One(Task(kind, "profiles.select", authUser)),
                      !.contacted = @ \cup {"profiles.select"}]
     ELSE [m EXCEPT !.session = s, !.user = None, !.loading = FALSE,
                    !.called = {"setSession", "setUser", "setLoading"}]

\* the handler clearing the loading flag before it fetches the profile
HandleSession_ClearsEarly(m, kind, s) ==
  LET authUser == UserOfSession(s)
  IN IF authUser # None
       THEN [m EXCEPT !.session = s, !.loading = FALSE,
                      !.called = {"setSession", "setLoading"},
                      !.tasks = @ (+) One(Task(kind, "profiles.select", authUser)),
                      !.contacted = @ \cup {"profiles.select"}]
     ELSE [m EXCEPT !.session = s, !.user = None, !.loading = FALSE,
                    !.called = {"setSession", "setUser", "setLoading"}]

\* the handler leaving the loading flag set when the session has no user
HandleSession_NullKeepsLoading(m, kind, s) ==
  LET authUser == UserOfSession(s)
  IN IF authUser # None
       THEN [m EXCEPT !.session = s, !.called = {"setSession"},
                      !.tasks = @ (+) One(Task(kind, "profiles.select", authUser)),
                      !.contacted = @ \cup {"profiles.select"}]
     ELSE [m EXCEPT !.session = s, !.user = None,
                    !.called = {"setSession", "setUser"}]

\* setSession(session); await updateUserProfile(session?.user ?? null), up
\* to the await of the profile select (or to the end when there is no user).
\* m.tasks holds the other suspended handlers; this one is of kind `kind`.
HandleSession(m, kind, s) ==
  LET authUser == UserOfSession(s)
  IN IF authUser # None
       THEN [m EXCEPT !.session = s, !.called = {"setSession"},
                      !.tasks = @ (+) One(Task(kind, "profiles.select", authUser)),
                      !.contacted = @ \cup {"profiles.select"}]
     ELSE [m EXCEPT !.session = s, !.user = None, !.loading = FALSE,
                    !.called = {"setSession", "setUser", "setLoading"}]

\* updateUserProfile treating a missing profile as no user
ResumeWithProfile_NullWithoutProfile(m, authUser, profile) ==
  [m EXCEPT !.user = IF profile = None THEN None
                     ELSE Some(WithProfile(authUser, profile)),
            !.loading = FALSE, !.called = {"setUser", "setLoading"}]

\* updateUserProfile setting the user without clearing the loading flag
ResumeWithProfile_StillLoading(m, authUser, profile) ==
  [m EXCEPT !.user = Some(WithProfile(authUser, profile)),
            !.called = {"setUser"}]

\* updateUserProfile after the await of fetchUserProfile:
\* setUser({ ...authUser, profile: profile ?? undefined }); setLoading(false)
\* m.tasks holds the other suspended handlers.
ResumeWithProfile(m, authUser, profile) ==
  [m EXCEPT !.user = Some(WithProfile(authUser, profile)),
            !.loading = FALSE, !.called = {"setUser", "setLoading"}]

\* an effect whose cleanup does not unsubscribe
AfterCleanup_StillSubscribed(subs, run) == subs

\* the listeners left subscribed by the cleanup of effect run `run`
\* (the demo branch returns no cleanup and has subscribed nothing)
AfterCleanup(subs, run) == IF configured THEN subs \ {run} ELSE subs

InitMirror ==
  /\ configured \in BOOLEAN
  /\ user = None
  /\ session = None
  /\ loading = TRUE
  /\ phase = "rendered"
  /\ effectRun = 0
  /\ subscriptions = {}
  /\ tasks = EmptyBag
  /\ contacted = {}
  /\ signResult = NoResult
  /\ lateWrite = FALSE

\* the mount effect leaving the loading flag set in demo mode
EffectBody_DemoStillLoading(run, subs) ==
  IF ~configured
    THEN /\ user' = Some(DemoUser(clock))
         /\ loading' = loading
         /\ subscriptions' = subs
         /\ UNCHANGED <<session, tasks, contacted>>
  ELSE /\ tasks' = tasks (+) One(Task("initial", "auth.getSession", None))
       /\ subscriptions' = subs \cup {run}
       /\ contacted' = contacted \cup {"auth.getSession", "auth.onAuthStateChange"}
       /\ UNCHANGED <<user, session, loading>>

\* the body of the mount effect, as run number `run`, after the cleanup of
\* the run before it (if any) left the listeners `subs`
EffectBody(run, subs) ==
  IF ~configured
    THEN /\ user' = Some(DemoUser(clock))
         /\ loading' = FALSE
         /\ subscriptions' = subs
         /\ UNCHANGED <<session, tasks, contacted>>
  ELSE /\ tasks' = tasks (+) One(Task("initial", "auth.getSession", None))
       /\ subscriptions' = subs \cup {run}
       /\ contacted' = contacted \cup {"auth.getSession", "auth.onAuthStateChange"}
       /\ UNCHANGED <<user, session, loading>>

\* the provider is mounted: its effect runs for the first time
Mount ==
  /\ phase = "rendered"
  /\ phase' = "mounted"
  /\ effectRun' = 1
  /\ EffectBody(1, subscriptions)
  /\ UNCHANGED <<configured, signResult, lateWrite>>
  /\ UNCHANGED actionVars

\* the effect runs again (a dependency changed, or a development-mode
\* remount): cleanup of the current run, then the body
RerunEffect ==
  /\ phase = "mounted"
  /\ effectRun < MaxEffectRuns
  /\ effectRun' = effectRun + 1
  /\ EffectBody(effectRun + 1, AfterCleanup(subscriptions, effectRun))
  /\ UNCHANGED <<configured, phase, signResult, lateWrite>>
  /\ UNCHANGED actionVars

\* the provider is unmounted: the cleanup of the current run
Unmount ==
  /\ phase = "mounted"
  /\ phase' = "unmounted"
  /\ subscriptions' = AfterCleanup(subscriptions, effectRun)
  /\ UNCHANGED <<configured, user, session, loading, effectRun, tasks, contacted,
                 signResult, lateWrite>>
  /\ UNCHANGED actionVars

\* handlers that drop their writes once the provider is unmounted
Write_OnlyWhileMounted(m) ==
  /\ user' = IF phase = "unmounted" THEN user ELSE m.user
  /\ session' = IF phase = "unmounted" THEN session ELSE m.session
  /\ loading' = IF phase = "unmounted" THEN loading ELSE m.loading
  /\ tasks' = m.tasks
  /\ contacted' = m.contacted
  /\ lateWrite' = lateWrite

\* the handlers write the React state; nothing in them looks at whether
\* the provider is still mounted
Write(m) ==
  /\ user' = m.user
  /\ session' = m.session
  /\ loading' = m.loading
  /\ tasks' = m.tasks
  /\ contacted' = m.contacted
  /\ lateWrite' = ( \/ lateWrite
                    \/ /\ phase = "unmounted"
                       /\ m.called \cap {"setUser", "setLoading"} # {} )

\* the React state with handler t no longer suspended
Resumed(t) == [Mirror EXCEPT !.tasks = @ (-) One(t)]

\* getSession() answers: the .then callback runs to its first await
SessionResolves(t) ==
  /\ BagIn(t, tasks)
  /\ t.awaits = "auth.getSession"
  /\ \E s \in Sessions : Write(HandleSession(Resumed(t), t.kind, s))
  /\ UNCHANGED <<configured, phase, effectRun, subscriptions, signResult>>
  /\ UNCHANGED actionVars

\* the platform delivers an auth-change event to the listener of effect run
\* `run`: the callback runs to its first await
AuthChange(run) ==
  /\ run \in subscriptions
  /\ InFlight("event") < MaxInFlight
  /\ \E s \in Sessions : Write(HandleSession(Mirror, "event", s))
  /\ UNCHANGED <<configured, phase, effectRun, subscriptions, signResult>>
  /\ UNCHANGED actionVars

\* the select of the profile row answers (ok: with the row; otherwise with
\* an error): updateUserProfile resumes
ProfileAnswersWith(t, ok) ==
  /\ BagIn(t, tasks)
  /\ t.awaits = "profiles.select"
  /\ Write(ResumeWithProfile(Resumed(t), Val(t.authUser),
             FetchUserProfileResult(ok, rows[Val(t.authUser).id])))
  /\ UNCHANGED <<configured, phase, effectRun, subscriptions, signResult>>
  /\ UNCHANGED actionVars

ProfileAnswers(t) == \E ok \in BOOLEAN : ProfileAnswersWith(t, ok)

\* signIn(email, password) / signUp(email, password), to the first await or
\* the return
SignInOrUp(method) ==
  /\ phase = "mounted"
  /\ IF ~configured
       THEN \E email \in Emails, password \in Passwords :
              /\ user' = Some(DemoSignedInUser(email))
              /\ signResult' = [error |-> None]
              /\ UNCHANGED <<tasks, contacted>>
     \* configured: the credentials go to the backend, whose answer
     \* (SignAnswers) is not determined by them
     ELSE /\ InFlight("sign") < MaxSignCalls
          /\ tasks' = tasks (+) One(Task("sign", method, None))
          /\ contacted' = contacted \cup {method}
          /\ UNCHANGED <<user, signResult>>
  /\ UNCHANGED <<configured, session, loading, phase, effectRun, subscriptions,
                 lateWrite>>
  /\ UNCHANGED actionVars

SignIn == SignInOrUp("auth.signInWithPassword")
SignUp == SignInOrUp("auth.signUp")

\* signOut(), to the first await or the return
SignOut ==
  /\ phase = "mounted"
  /\ IF ~configured
       THEN /\ user' = None
            /\ session' = None
            /\ UNCHANGED <<tasks, contacted>>
     ELSE /\ InFlight("sign") < MaxSignCalls
          /\ tasks' = tasks (+) One(Task("sign", "auth.signOut", None))
          /\ contacted' = contacted \cup {"auth.signOut"}
          /\ UNCHANGED <<user, session>>
  /\ UNCHANGED <<configured, loading, phase, effectRun, subscriptions, signResult,
                 lateWrite>>
  /\ UNCHANGED actionVars

\* the backend answers signInWithPassword / signUp / signOut:
\* return { error: error?.message }  (signOut returns nothing)
SignAnswers(t) ==
  /\ BagIn(t, tasks)
  /\ t.kind = "sign"
  /\ tasks' = tasks (-) One(t)
  /\ \E ok \in BOOLEAN :
       signResult' = IF t.awaits = "auth.signOut" THEN signResult
                     ELSE IF ok THEN [error |-> None]
                     ELSE [error |-> Some(RemoteMessage)]
  /\ UNCHANGED <<configured, user, session, loading, phase, effectRun, subscriptions,
                 contacted, lateWrite>>
  /\ UNCHANGED actionVars

NextMirror ==
  \/ Mount
  \/ RerunEffect
  \/ Unmount
  \/ \E t \in BagToSet(tasks) : SessionResolves(t)
  \/ \E run \in subscriptions : AuthChange(run)
  \/ \E t \in BagToSet(tasks) : ProfileAnswers(t)
  \/ SignIn
  \/ SignUp
  \/ SignOut
  \/ \E t \in BagToSet(tasks) : SignAnswers(t)

\* ------------------------------------------------------------------------
\* Specifications
\* ------------------------------------------------------------------------
\* the server actions, with the provider as constructed
InitOfActions == InitActions /\ InitMirror /\ configured

SpecActions == InitOfActions /\ [][NextActions]_vars

\* the auth provider, in either mode, with the backend as first deployed
InitOfMirror == InitActions /\ InitMirror

SpecMirror == InitOfMirror /\ [][NextMirror]_vars

\* some pending getSession() call is answered
SomeSessionResolves == \E t \in BagToSet(tasks) : SessionResolves(t)

\* some pending profile select is answered
SomeProfileAnswers == \E t \in BagToSet(tasks) : ProfileAnswers(t)

\* the steps of the mount effect and of the handlers it starts.  signIn,
\* signUp and signOut are left out: with a backend configured they write
\* none of user, session and loading, and what they cause at the backend
\* reaches the provider as an auth-change event
NextHandlers ==
  \/ Mount
  \/ RerunEffect
  \/ Unmount
  \/ SomeSessionResolves
  \/ \E run \in subscriptions : AuthChange(run)
  \/ SomeProfileAnswers

\* the provider with a backend configured
InitOfHandlers == InitActions /\ InitMirror /\ configured

\* the configured provider with a backend that answers: a pending session
\* fetch is eventually answered, and so is a pending profile fetch (with a
\* result or an error); nothing obliges the platform to deliver an
\* auth-change event, nor the effect to run again, nor the provider to be
\* unmounted
SpecHandlersAnswered ==
  /\ InitOfHandlers
  /\ [][NextHandlers]_vars
  /\ WF_vars(SomeSessionResolves)
  /\ WF_vars(SomeProfileAnswers)

\* ------------------------------------------------------------------------
\* Properties of the server actions (checked under SpecActions)
\* ------------------------------------------------------------------------
\* the invocation made remote call `name`, with outcome `good`
Made(c, name, good) ==
  \E i \in 1..Len(c.log) : c.log[i].call = name /\ c.log[i].ok = good

LastCall(c) == c.log[Len(c.log)]

\* the invocation returns in this step
Returns(c) == call[c].pc # "done" /\ call'[c].pc = "done"

\* uploadAvatar returns after its object was stored and the profile write
\* failed
ReturnsAfterFailedAvatarWrite(c) ==
  /\ Returns(c)
  /\ call'[c].op = "uploadAvatar"
  /\ Made(call'[c], "storage.upload", TRUE)
  /\ Made(call'[c], "profiles.update", FALSE)

\* C1 as stated: whenever uploadAvatar returns after a successful upload and
\* a failed profile-row update, the object store no longer holds the path it
\* uploaded.
C1_ObjectGoneAtReturn ==
  [][\A c \in Calls :
       ReturnsAfterFailedAvatarWrite(c) => Val(call'[c].filePath) \notin store']_vars

\* C1 as amended: whenever uploadAvatar returns after a successful upload and
\* a failed profile-row update, the last thing it did was to ask the object
\* store to remove the path it uploaded, and it returns the profile-write
\* error; the store no longer holds that path at the return if that removal
\* succeeded (its outcome is not inspected).
C1_RemoveAttemptedBeforeReturn ==
  [][\A c \in Calls :
       ReturnsAfterFailedAvatarWrite(c) =>
         /\ LastCall(call'[c]).call = "storage.remove"
         /\ call[c].pc = "remove"
         /\ IsError(call'[c].result)
         /\ LastCall(call'[c]).ok => Val(call'[c].filePath) \notin store']_vars

\* C1 witness: uploadAvatar has returned the profile-write error after a
\* successful removal, and the store does not hold its path.
C1_Witness ==
  \E c \in Calls :
    /\ call[c].pc = "done"
    /\ Made(call[c], "storage.upload", TRUE)
    /\ Made(call[c], "profiles.update", FALSE)
    /\ Made(call[c], "storage.remove", TRUE)
    /\ Val(call[c].filePath) \notin store

\* updateProfile has returned for a display name the validation rejects
RejectedNameReturned(c) ==
  /\ call[c].op = "updateProfile"
  /\ call[c].pc = "done"
  /\ DisplayNameRejected(call[c].input)

ValidationError == [error |-> "Display name must be between 1 and 32 characters"]

\* C2 as stated: when updateProfile is called with a display name that is
\* missing or of a length outside [1,32], it returns the validation error
\* and has made no remote call at all.
C2_NoRemoteCallOnInvalidName ==
  \A c \in Calls :
    RejectedNameReturned(c) =>
      call[c].result = ValidationError /\ call[c].log = <<>>

\* C2 as amended: when updateProfile is called with a display name that is
\* missing or of a length outside [1,32], the only remote call it makes is
\* the auth service's user lookup (never a row-store call); it returns the
\* validation error when that lookup yields a user and the authentication
\* error when it yields none, and no view is invalidated.
C2_NoRowStoreCallOnInvalidName ==
  \A c \in Calls :
    RejectedNameReturned(c) =>
      /\ Len(call[c].log) = 1
      /\ call[c].log[1].call = "auth.getUser"
      /\ call[c].user # None => call[c].result = ValidationError
      /\ call[c].user = None => call[c].result = [error |-> "User not authenticated"]
      /\ call[c].views = {}

\* C2 witness: an authenticated updateProfile with a 33-character display
\* name has returned the validation error.
C2_Witness ==
  \E c \in Calls :
    /\ RejectedNameReturned(c)
    /\ call[c].input = Some(Str(MaxDisplayNameLen + 1))
    /\ call[c].user # None
    /\ call[c].result = ValidationError

\* C3 as stated: apart from the failed profile write of uploadAvatar, an
\* invocation that returns an error has changed no profile row and has left
\* no object it uploaded in the store.
C3_NoPartialStateOnFailure ==
  \A c \in Calls :
    ( /\ call[c].pc = "done"
      /\ IsError(call[c].result)
      /\ ~(call[c].op = "uploadAvatar" /\ Made(call[c], "profiles.update", FALSE)) )
    => /\ ~Made(call[c], "profiles.update", TRUE)
       /\ Made(call[c], "storage.upload", TRUE) => Val(call[c].filePath) \notin store

\* ------------------------------------------------------------------------
\* Properties of the auth provider (checked under SpecMirror)
\* ------------------------------------------------------------------------
\* a handler is suspended on `awaited`
Awaiting(awaited) == \E t \in BagToSet(tasks) : t.awaits = awaited

\* this step starts a handler: the initial session resolves, or an
\* auth-change event is delivered
HandlerStarts ==
  \/ \E t \in BagToSet(tasks) : SessionResolves(t)
  \/ \E run \in subscriptions : AuthChange(run)

\* this step is the handler of an auth-change event running to its end
EventHandlerEnds ==
  \/ \E run \in subscriptions : AuthChange(run) /\ UserOfSession(session') = None
  \/ \E t \in BagToSet(tasks) : t.kind = "event" /\ ProfileAnswers(t)

\* this step is the handler of the initial session running to its end
InitialHandlerEnds ==
  \/ \E t \in BagToSet(tasks) : SessionResolves(t) /\ UserOfSession(session') = None
  \/ \E t \in BagToSet(tasks) : t.kind = "initial" /\ ProfileAnswers(t)

\* C4: in configured mode the loading flag, once false, is never set back to
\* true by any step (events, sign calls, remounts), so it goes from true to
\* false at most once; and every auth-change event still updates the
\* mirrored identity: an event without a user sets it to null at once, and
\* the handler of an event with a user sets it to that user when its profile
\* fetch answers.
C4_LoadingClearedOnce ==
  [][configured =>
       /\ ~loading => ~loading'
       /\ \A run \in subscriptions :
            (AuthChange(run) /\ UserOfSession(session') = None) => user' = None
       /\ \A t \in BagToSet(tasks) :
            ProfileAnswers(t) =>
              /\ user' # None
              /\ Val(user').id = Val(t.authUser).id
              /\ ~loading']_vars

\* C4 witness: loading is false, no initial handler is left, and the handler
\* of a later event carrying another user than the mirrored one is
\* suspended.
C4_Witness ==
  /\ configured
  /\ ~loading
  /\ user # None
  /\ InFlight("initial") = 0
  /\ \E t \in BagToSet(tasks) :
       t.kind = "event" /\ Val(t.authUser).id # Val(user).id

\* C5 as stated: in configured mode the handler of an auth-change event
\* never clears loading while an initial session fetch is still unresolved.
C5_EventNeverClearsLoadingFirst ==
  [][(configured /\ loading /\ ~loading' /\ EventHandlerEnds)
       => ~Awaiting("auth.getSession")]_vars

\* C5 as amended: in configured mode loading is cleared by whichever handler
\* ends first, that of the initial session or that of an auth-change event
\* (which may end while the initial session fetch is still unresolved); it
\* is cleared by nothing else: not by the mount, a sign call, the unmount,
\* nor by a handler that has yet to fetch the profile.
C5_FirstHandlerClearsLoading ==
  [][(configured /\ loading /\ ~loading') =>
       (InitialHandlerEnds \/ EventHandlerEnds)]_vars

\* C5 witness: loading is false while the only initial session fetch is
\* still unresolved.
C5_Witness ==
  /\ configured
  /\ effectRun = 1
  /\ ~loading
  /\ Awaiting("auth.getSession")

\* C6 as stated: the handlers never overlap: when a handler starts (and
\* writes the session), no other handler is suspended between its writes.
C6_HandlersDoNotOverlap ==
  [][HandlerStarts => ~Awaiting("profiles.select")]_vars

\* C7: in configured mode, when the profile fetch for a handler's user fails
\* the identity is set to that user with the profile undefined, and when it
\* succeeds to that user with the row; the identity becomes null only in a
\* step that also sets a session without user.
C7_MissingProfileIsNotSignedOut ==
  [][configured =>
       /\ \A t \in BagToSet(tasks) :
            /\ ProfileAnswersWith(t, FALSE) =>
                 user' = Some(WithProfile(Val(t.authUser), None))
            /\ ProfileAnswersWith(t, TRUE) =>
                 user' = Some(WithProfile(Val(t.authUser), Some(rows[Val(t.authUser).id])))
       /\ (user # None /\ user' = None) =>
            (HandlerStarts /\ UserOfSession(session') = None)]_vars

\* C7 witness: the mirrored identity is a user whose profile is undefined.
C7_Witness ==
  /\ configured
  /\ user # None
  /\ Val(user).profile = None
  /\ ~loading

\* C8: in configured mode the only listener subscribed is the one of the
\* current effect run while the provider is mounted, and none is subscribed
\* once it is unmounted, whatever handlers are still suspended.
C8_ListenerReleased ==
  configured =>
    /\ phase = "mounted" => subscriptions = {effectRun}
    /\ phase # "mounted" => subscriptions = {}

\* C8 witness: the provider is unmounted after a re-run of its effect, with
\* a session fetch and a profile fetch still in flight.
C8_Witness ==
  /\ configured
  /\ phase = "unmounted"
  /\ effectRun > 1
  /\ Awaiting("auth.getSession")
  /\ Awaiting("profiles.select")
  /\ subscriptions = {}

\* C9: in unconfigured mode the mount effect leaves the identity non-null
\* with e-mail demo@queuecx.com and loading false, and no backend method has
\* been called, no listener subscribed and no handler started.
C9_DemoIdentityAtMount ==
  [][(~configured /\ Mount) =>
       /\ user' # None
       /\ Val(user').email = DemoEmail
       /\ ~loading'
       /\ contacted' = {}
       /\ subscriptions' = {}
       /\ tasks' = EmptyBag]_vars

\* C9 witness: the provider is mounted in unconfigured mode with the demo
\* identity.
C9_Witness ==
  /\ ~configured
  /\ phase = "mounted"
  /\ user # None
  /\ Val(user).email = DemoEmail
  /\ ~loading
  /\ contacted = {}

\* dn is the part of email before its first "@" (all of it when it has none)
IsLocalPart(dn, email) ==
  /\ Len(dn) <= Len(email)
  /\ \A i \in 1..Len(dn) : dn[i] = email[i] /\ dn[i] # "@"
  /\ Len(dn) < Len(email) => email[Len(dn) + 1] = "@"

\* C10: in unconfigured mode signIn and signUp call no backend method,
\* return a result without error and set the identity to one carrying the
\* given e-mail and its part before "@" as display name; signOut calls no
\* backend method and sets identity and session to null.
C10_DemoSignCalls ==
  [][~configured =>
       /\ (SignIn \/ SignUp) =>
            /\ signResult' = [error |-> None]
            /\ contacted' = {} /\ tasks' = EmptyBag
            /\ user' # None
            /\ Val(user').email \in Emails
            /\ Val(user').user_metadata.display_name # None
            /\ IsLocalPart(Val(Val(user').user_metadata.display_name), Val(user').email)
       /\ SignOut =>
            /\ user' = None /\ session' = None
            /\ contacted' = {} /\ tasks' = EmptyBag]_vars

\* C10 witness: after a demo sign-in with a@b@c the identity carries that
\* e-mail and the display name "a".
C10_Witness ==
  /\ ~configured
  /\ signResult = [error |-> None]
  /\ user # None
  /\ Val(user).email = <<"a", "@", "b", "@", "c">>
  /\ Val(user).user_metadata.display_name = Some(<<"a">>)
  /\ contacted = {}

\* ------------------------------------------------------------------------
\* Further properties of the server actions (checked under SpecActions)
\* ------------------------------------------------------------------------
\* the invocation asked the object store to upload
AskedUpload(c) == c.pc = "upload" \/ Made(c, "storage.upload", TRUE) \/ Made(c, "storage.upload", FALSE)

\* C11: an uploadAvatar call of an authenticated caller reports the error of
\* the first violated constraint, in the order (1) file present and
\* non-empty, (2) size at most 2 MiB, (3) MIME type beginning with image/,
\* and has then asked for no upload; a file that violates none (an image of
\* exactly 2*1024*1024 bytes included) passes on to the upload.  (A caller
\* the auth service does not know is turned away before the constraints are
\* looked at, and asks for no upload either.)
C11_FirstViolatedConstraint ==
  \A c \in Calls :
    /\ (call[c].op = "uploadAvatar" /\ call[c].user = None) => ~AskedUpload(call[c])
    /\ (call[c].op = "uploadAvatar" /\ call[c].user # None) =>
        LET file == call[c].input
            rejected(msg) == /\ call[c].pc = "done"
                             /\ call[c].result = [error |-> msg]
                             /\ ~AskedUpload(call[c])
                             /\ call[c].filePath = None
        IN IF file = None \/ Val(file).size = 0 THEN rejected("No file selected")
           ELSE IF Val(file).size > 2 * 1024 * 1024
             THEN rejected("File size must be less than 2MB")
           ELSE IF SubSeq(Val(file).type, 1, 6) # <<"i", "m", "a", "g", "e", "/">>
             THEN rejected("File must be an image")
           ELSE AskedUpload(call[c])

\* C11 witness: an image of exactly 2 MiB was uploaded, and a file that is
\* both too large and not an image was rejected for its size.
C11_Witness ==
  \E c, d \in Calls :
    /\ call[c].op = "uploadAvatar"
    /\ call[c].input # None
    /\ Val(call[c].input).size = 2 * 1024 * 1024
    /\ Made(call[c], "storage.upload", TRUE)
    /\ call[d].op = "uploadAvatar"
    /\ call[d].user # None
    /\ call[d].input # None
    /\ Val(call[d].input).size = 2 * 1024 * 1024 + 1
    /\ NotAnImage(call[d].input)
    /\ call[d].result = [error |-> "File size must be less than 2MB"]

\* updateProfile returns in this step, for a caller the auth service knows
\* and without a failure of the row store
UpdateProfileReturns(c) ==
  /\ Returns(c)
  /\ call'[c].op = "updateProfile"
  /\ call'[c].user # None
  /\ ~Made(call'[c], "profiles.update", FALSE)

\* the display name is present and of a length between 1 and 32
NameInRange(displayName) ==
  IF displayName = None THEN FALSE
  ELSE Len(Val(displayName)) >= 1 /\ Len(Val(displayName)) <= 32

\* C12: for an authenticated caller and a row store that does not fail,
\* updateProfile returns the success message exactly when the display name
\* has between 1 and 32 characters, and the caller's row then carries that
\* name; for any other name (lengths 0 and 33, or none) it returns an error
\* and no row has changed.
C12_SuccessIffNameInRange ==
  [][\A c \in Calls :
       UpdateProfileReturns(c) =>
         IF NameInRange(call'[c].input)
           THEN /\ call'[c].result = [message |-> "Profile updated successfully"]
                /\ rows'[Val(call'[c].user)].display_name = Val(call'[c].input)
         ELSE /\ IsError(call'[c].result)
              /\ Len(call'[c].log) = 1
              /\ rows' = rows]_vars

\* C12 witness: updateProfile has succeeded for a name of 32 characters,
\* which the caller's row carries, and has returned an error for one of 33.
C12_Witness ==
  \E c, d \in Calls :
    /\ call[c].op = "updateProfile" /\ call[c].pc = "done"
    /\ call[c].input = Some(Str(32))
    /\ call[c].result = [message |-> "Profile updated successfully"]
    /\ rows[Val(call[c].user)].display_name = Str(32)
    /\ call[d].op = "updateProfile" /\ call[d].pc = "done"
    /\ call[d].user # None
    /\ call[d].input = Some(Str(33))
    /\ IsError(call[d].result)

\* the invocation returned a success result
Succeeded(c) == c.pc = "done" /\ "message" \in DOMAIN c.result /\ ~IsError(c.result)

\* C13: updateProfile and uploadAvatar have invalidated the settings view
\* and the dashboard view exactly when they have returned a success result;
\* until then, and on every error path (unauthenticated, validation, upload
\* failure, missing public URL, row-store failure), they have invalidated no
\* view.
C13_ViewsInvalidatedIffSuccess ==
  \A c \in Calls :
    call[c].op \in {"updateProfile", "uploadAvatar"} =>
      /\ Succeeded(call[c]) => call[c].views = {"/settings", "/dashboard"}
      /\ ~Succeeded(call[c]) => call[c].views = {}
      /\ call[c].pc = "done" => (Succeeded(call[c]) <=> ~IsError(call[c].result))

\* C13 witness: an uploadAvatar call has succeeded with both views
\* invalidated, and an updateProfile call whose row update failed has
\* invalidated none.
C13_Witness ==
  \E c, d \in Calls :
    /\ call[c].op = "uploadAvatar"
    /\ Succeeded(call[c])
    /\ call[c].views = {"/settings", "/dashboard"}
    /\ call[d].op = "updateProfile"
    /\ call[d].pc = "done"
    /\ Made(call[d], "profiles.update", FALSE)
    /\ call[d].views = {}

\* invocation c takes this step
Steps(c) == call'[c] # call[c]

\* C14: a step changes a profile row only when it is the step of a call whose
\* authenticated identity (the one of the request's cookies) has the id of
\* that row, so the rows of all other identities are unchanged; an object is
\* stored only by a call of an authenticated caller, under a key that starts
\* with that caller's id; and a call without an authenticated identity
\* changes no row and stores no object in any of its steps.
C14_OnlyTheCallersRow ==
  [][/\ \A id \in Ids :
          rows'[id] # rows[id] =>
            \E c \in Calls :
              /\ Steps(c)
              /\ call[c].op \in {"updateProfile", "uploadAvatar"}
              /\ call[c].user = Some(id)
              /\ call[c].ctx = Some(id)
     /\ \A p \in store' \ store :
          \E c \in Calls :
            /\ Steps(c)
            /\ call[c].user # None
            /\ call[c].user = call[c].ctx
            /\ StartsWith(p, <<"a", "v", "a", "t", "a", "r", "s", "/">> \o Val(call[c].user))
     /\ \A c \in Calls :
          (Steps(c) /\ call'[c].user = None) => (rows' = rows /\ store' = store)]_vars

\* C14 witness: identity u1 has changed its display name and stored an
\* avatar, an unauthenticated call has returned, and the row of u2 is as it
\* was created.
C14_Witness ==
  \E c, d \in Calls :
    /\ call[c].op = "uploadAvatar"
    /\ call[c].user = Some(<<"u", "1">>)
    /\ Succeeded(call[c])
    /\ rows[<<"u", "1">>].avatar_url # None
    /\ store # {}
    /\ call[d].pc = "done"
    /\ call[d].ctx # None
    /\ call[d].result = [error |-> "User not authenticated"]
    /\ rows[<<"u", "2">>].avatar_url = None
    /\ rows[<<"u", "2">>].display_name = Str(1)

\* ------------------------------------------------------------------------
\* Further properties of the auth provider (checked under SpecMirror)
\* ------------------------------------------------------------------------
\* C15: the unmount stops no handler: when, after the unmount, the profile
\* fetch of a suspended handler answers, or the session fetch answers
\* without a user, the handler writes identity and loading as it would have
\* while mounted, so a write to the mirrored state after the unmount is
\* performed (and is recorded only then).
C15_WriteAfterUnmount ==
  [][/\ (configured /\ phase = "unmounted") =>
          /\ \A t \in BagToSet(tasks) :
               ProfileAnswers(t) =>
                 /\ lateWrite'
                 /\ user' # None /\ Val(user').id = Val(t.authUser).id
                 /\ ~loading'
          /\ \A t \in BagToSet(tasks) :
               (SessionResolves(t) /\ UserOfSession(session') = None) =>
                 (lateWrite' /\ user' = None /\ ~loading')
     /\ lateWrite' => phase' = "unmounted"]_vars

\* C15 witness: the provider is unmounted, and identity and loading were
\* written after the unmount.
C15_Witness ==
  /\ configured
  /\ phase = "unmounted"
  /\ lateWrite
  /\ user # None
  /\ ~loading

\* C16: in every reachable state of the provider, in either mode, the
\* mirrored identity is null while loading is true.
C16_NoIdentityWhileLoading == loading => user = None

\* C16 witness: loading is still true and the identity null although the
\* session with its user is already mirrored and its profile is being
\* fetched.
C16_Witness ==
  /\ configured
  /\ loading
  /\ user = None
  /\ session # None
  /\ Awaiting("profiles.select")

\* no handler of the initial session or of an auth-change event is
\* suspended
NoHandlerInFlight == InFlight("initial") + InFlight("event") = 0

\* C17 as stated: in configured mode, whenever no handler is in flight the
\* mirrored identity agrees with the mirrored session: it is null exactly
\* when the session is null or carries no user, and otherwise has the id of
\* the session's user.
C17_IdentityAgreesWithSession ==
  (configured /\ phase # "rendered" /\ NoHandlerInFlight) =>
    /\ user = None <=> UserOfSession(session) = None
    /\ user # None => Val(user).id = Val(UserOfSession(session)).id

\* C18: whatever uploadAvatar calls have run or are running, together or
\* one after the other, every avatar URL in a profile row is the public URL
\* of an object the store holds.
C18_AvatarUrlHasObject ==
  \A id \in Ids :
    rows[id].avatar_url # None =>
      \E p \in store : PublicUrlOf(p) = Val(rows[id].avatar_url)

\* C18 witness: two calls of the same identity derived the same storage
\* key; one stored the object and wrote its URL into the row, the other was
\* refused by the store; the object is present.
C18_Witness ==
  \E c, d \in Calls :
    /\ c # d
    /\ call[c].op = "uploadAvatar" /\ call[d].op = "uploadAvatar"
    /\ call[c].filePath # None
    /\ call[c].filePath = call[d].filePath
    /\ Succeeded(call[c])
    /\ call[d].pc = "done"
    /\ Made(call[d], "storage.upload", FALSE)
    /\ rows[Val(call[c].user)].avatar_url = call[c].publicUrl
    /\ Val(call[c].filePath) \in store

\* C19: in configured mode, when every session fetch and profile fetch of
\* the provider is eventually answered (with a result or an error), a
\* mounted provider eventually has loading false, whether or not an
\* auth-change event is ever delivered.
C19_LoadingEventuallyCleared ==
  (configured /\ phase = "mounted") ~> ~loading

\* C19 witness: after a single effect run loading is false, the profile
\* fetch having answered with an error, and no handler is left.
C19_Witness ==
  /\ configured
  /\ effectRun = 1
  /\ phase = "mounted"
  /\ NoHandlerInFlight
  /\ ~loading
  /\ user # None
  /\ Val(user).profile = None
  /\ Val(user).id = Val(UserOfSession(session)).id

====
